---- MODULE Spec2Model ----
(***************************************************************************)
(* A model of rustlox: the scanner (src/src/scanner.rs) and the runtime    *)
(* value model with its call protocol (src/src/object.rs, src/src/stmt.rs).*)
(*                                                                         *)
(* Bytes are one-character strings; the NUL byte and a byte >= 128 have    *)
(* the names NUL and HighByte.  A byte buffer is a sequence of bytes, and  *)
(* the code's 0-based source[i] is At(source, i).                          *)
(***************************************************************************)
EXTENDS Naturals, Integers, Sequences, FiniteSets, TLC

VARIABLES
  scanner,   \* the Scanner
  prev,      \* the Scanner before the last call of scan_token
  token,     \* the token the last call returned
  tokens,    \* every token returned so far
  heap,      \* the value cells (Arc<RwLock<Object>>); a handle is an index
  result,    \* the last operation on values and what it returned
  machine    \* the interpreter: scopes, output, and the cells it allocated

scanVars == <<scanner, prev, token, tokens>>

valueVars == <<heap, result>>

callVars == <<machine>>

vars == <<scanner, prev, token, tokens, heap, result, machine>>

(***************************************************************************)
(* Bounds of the model.                                                    *)
(***************************************************************************)
\* longest source buffer drawn from the whole core alphabet
MaxLen == 3
\* calls of scan_token made after the first Eof was returned
MaxEofCalls == 2
\* longest run of bytes after the first byte of an operator source
MaxTail == 2
\* longest body of a comment source
MaxComment == 2
\* longest source of digits, dots, an exponent letter and a sign
MaxNumber == 4
\* cells allocated by the factories besides the three singletons
MaxFresh == 2
\* longest argument list of a call statement
MaxArgs == 2

(***************************************************************************)
(* Bytes.                                                                  *)
(***************************************************************************)
NUL == "NUL"
HighByte == "0x80"
NL == "\n"
Quote == "\""

Digits == {"0", "1", "2", "3", "4", "5", "6", "7", "8", "9"}

Letters ==
  {"a", "b", "c", "d", "e", "f", "g", "h", "i", "j", "k", "l", "m",
   "n", "o", "p", "q", "r", "s", "t", "u", "v", "w", "x", "y", "z",
   "A", "B", "C", "D", "E", "F", "G", "H", "I", "J", "K", "L", "M",
   "N", "O", "P", "Q", "R", "S", "T", "U", "V", "W", "X", "Y", "Z"}

is_ascii_digit(c) == c \in Digits

is_alpha(c) == c \in Letters \/ c = "_"

At(s, i) == IF i + 1 \in DOMAIN s THEN s[i + 1] ELSE NUL

\* source[from..to], the half-open byte range (cut at the end of the buffer,
\* where the code's slice would panic: advance records that as aborted)
Slice(s, from, to) ==
  LET end == IF to <= Len(s) THEN to ELSE Len(s) IN
  IF end <= from THEN << >> ELSE SubSeq(s, from + 1, end)

(***************************************************************************)
(* Scanner: the struct is the record [source, start, current, line]; the   *)
(* field aborted records a panic (an index out of the buffer's bounds).    *)
(***************************************************************************)
NewScanner(source) ==
  [source |-> source, start |-> 0, current |-> 0, line |-> 1, aborted |-> FALSE]

\* mutant: the end test is off by one
is_at_end_off_by_one(sc) == sc.current > Len(sc.source)

is_at_end(sc) == sc.current >= Len(sc.source)

peek(sc) == IF is_at_end(sc) THEN NUL ELSE At(sc.source, sc.current)

peek_next(sc) ==
  IF sc.current + 1 >= Len(sc.source) THEN NUL ELSE At(sc.source, sc.current + 1)

\* self.current += 1; self.source[self.current - 1]
advance(sc) ==
  [sc EXCEPT !.current = @ + 1,
             !.aborted = @ \/ sc.current >= Len(sc.source)]

advanced_byte(sc) == At(sc.source, sc.current)

matches_hit(sc, expected) ==
  ~ is_at_end(sc) /\ At(sc.source, sc.current) = expected

\* mutant: the matched byte is not consumed
matches_no_consume(sc, expected) == sc

matches(sc, expected) ==
  IF matches_hit(sc, expected) THEN [sc EXCEPT !.current = @ + 1] ELSE sc

make_token(sc, kind) ==
  [kind |-> kind, lexeme |-> Slice(sc.source, sc.start, sc.current), line |-> sc.line]

error_token(sc, message) ==
  [kind |-> "Error", lexeme |-> message, line |-> sc.line]

UnexpectedCharacter ==
  <<"U", "n", "e", "x", "p", "e", "c", "t", "e", "d", " ",
    "c", "h", "a", "r", "a", "c", "t", "e", "r", ".">>

UnterminatedString ==
  <<"U", "n", "t", "e", "r", "m", "i", "n", "a", "t", "e", "d", " ",
    "s", "t", "r", "i", "n", "g", ".">>

\* mutant: a comment swallows the newline that ends it
RECURSIVE skip_comment_through_newline(_)
skip_comment_through_newline(sc) ==
  IF is_at_end(sc) \/ sc.aborted THEN sc
  ELSE IF peek(sc) = NL THEN advance(sc)
  ELSE skip_comment_through_newline(advance(sc))

\* mutant: the comment loop does not test the end of the input
RECURSIVE skip_comment_no_end_check(_)
skip_comment_no_end_check(sc) ==
  IF peek(sc) # NL /\ ~ sc.aborted
    THEN skip_comment_no_end_check(advance(sc))
    ELSE sc

\* the inner loop of a comment: while peek() != '\n' && !is_at_end() advance
RECURSIVE skip_comment(_)
skip_comment(sc) ==
  IF peek(sc) # NL /\ ~ is_at_end(sc) /\ ~ sc.aborted
    THEN skip_comment(advance(sc))
    ELSE sc

RECURSIVE skip_whitespace(_)
skip_whitespace(sc) ==
  LET c == peek(sc) IN
  IF sc.aborted THEN sc
  ELSE IF c \in {" ", "\r", "\t"} THEN skip_whitespace(advance(sc))
  ELSE IF c = NL THEN skip_whitespace(advance([sc EXCEPT !.line = @ + 1]))
  ELSE IF c = "/" /\ peek_next(sc) = "/" THEN skip_whitespace(skip_comment(sc))
  ELSE sc

\* mutant: a newline inside a string is not counted
RECURSIVE string_body_uncounted(_)
string_body_uncounted(sc) ==
  IF peek(sc) # Quote /\ ~ is_at_end(sc) /\ ~ sc.aborted
    THEN string_body_uncounted(advance(sc))
    ELSE sc

RECURSIVE string_body(_)
string_body(sc) ==
  IF peek(sc) # Quote /\ ~ is_at_end(sc) /\ ~ sc.aborted
    THEN string_body(advance(IF peek(sc) = NL
                               THEN [sc EXCEPT !.line = @ + 1]
                               ELSE sc))
    ELSE sc

\* mutant: the end of the input is not tested after the loop
string_no_end_check(sc0) ==
  LET sc == string_body(sc0) IN
  [sc |-> advance(sc), token |-> make_token(advance(sc), "String")]

string(sc0) ==
  LET sc == string_body(sc0) IN
  IF is_at_end(sc)
    THEN [sc |-> sc, token |-> error_token(sc, UnterminatedString)]
    ELSE [sc |-> advance(sc), token |-> make_token(advance(sc), "String")]

RECURSIVE digits(_)
digits(sc) ==
  IF is_ascii_digit(peek(sc)) /\ ~ sc.aborted THEN digits(advance(sc)) ELSE sc

\* mutant: a '.' after the digits is consumed whatever follows it
number_dot_unchecked(sc0) ==
  LET sc1 == digits(sc0)
      sc2 == IF peek(sc1) = "." THEN digits(advance(sc1)) ELSE sc1
  IN [sc |-> sc2, token |-> make_token(sc2, "Number")]

number(sc0) ==
  LET sc1 == digits(sc0)
      sc2 == IF peek(sc1) = "." /\ is_ascii_digit(peek_next(sc1))
               THEN digits(advance(sc1))
               ELSE sc1
  IN [sc |-> sc2, token |-> make_token(sc2, "Number")]

\* mutant: the lengths are not compared, a keyword followed by more bytes matches
check_keyword_prefix(sc, start_offset, rest, kind) ==
  IF Slice(sc.source, sc.start + start_offset, sc.start + start_offset + Len(rest)) = rest
    THEN kind
    ELSE "Identifier"

check_keyword(sc, start_offset, rest, kind) ==
  IF sc.current - (sc.start + start_offset) = Len(rest)
       /\ Slice(sc.source, sc.start + start_offset, sc.current) = rest
    THEN kind
    ELSE "Identifier"

identifier_kind(sc) ==
  LET c == At(sc.source, sc.start)
      d == At(sc.source, sc.start + 1)
  IN
  CASE c = "a" -> check_keyword(sc, 1, <<"n", "d">>, "And")
    [] c = "c" -> check_keyword(sc, 1, <<"l", "a", "s", "s">>, "Class")
    [] c = "e" -> check_keyword(sc, 1, <<"l", "s", "e">>, "Else")
    [] c = "f" ->
         IF sc.current - sc.start > 1
           THEN CASE d = "a" -> check_keyword(sc, 2, <<"l", "s", "e">>, "False")
                  [] d = "o" -> check_keyword(sc, 2, <<"r">>, "For")
                  [] d = "u" -> check_keyword(sc, 2, <<"n">>, "Fun")
                  [] OTHER -> "Identifier"
           ELSE "Identifier"
    [] c = "i" -> check_keyword(sc, 1, <<"f">>, "If")
    [] c = "n" -> check_keyword(sc, 1, <<"i", "l">>, "Nil")
    [] c = "o" -> check_keyword(sc, 1, <<"r">>, "Or")
    [] c = "p" -> check_keyword(sc, 1, <<"r", "i", "n", "t">>, "Print")
    [] c = "r" -> check_keyword(sc, 1, <<"e", "t", "u", "r", "n">>, "Return")
    [] c = "s" -> check_keyword(sc, 1, <<"u", "p", "e", "r">>, "Super")
    [] c = "t" ->
         IF sc.current - sc.start > 1
           THEN CASE d = "h" -> check_keyword(sc, 2, <<"i", "s">>, "This")
                  [] d = "r" -> check_keyword(sc, 2, <<"u", "e">>, "True")
                  [] OTHER -> "Identifier"
           ELSE "Identifier"
    [] c = "v" -> check_keyword(sc, 1, <<"a", "r">>, "Var")
    [] c = "w" -> check_keyword(sc, 1, <<"h", "i", "l", "e">>, "While")
    [] OTHER -> "Identifier"

RECURSIVE identifier_body(_)
identifier_body(sc) ==
  IF (is_alpha(peek(sc)) \/ is_ascii_digit(peek(sc))) /\ ~ sc.aborted
    THEN identifier_body(advance(sc))
    ELSE sc

identifier(sc0) ==
  LET sc == identifier_body(sc0) IN
  [sc |-> sc, token |-> make_token(sc, identifier_kind(sc))]

SingleKind(c) ==
  CASE c = "(" -> "LeftParen"
    [] c = ")" -> "RightParen"
    [] c = "{" -> "LeftBrace"
    [] c = "}" -> "RightBrace"
    [] c = ";" -> "Semicolon"
    [] c = "," -> "Comma"
    [] c = "." -> "Dot"
    [] c = "-" -> "Minus"
    [] c = "+" -> "Plus"
    [] c = "/" -> "Slash"
    [] c = "*" -> "Star"

SingleBytes == {"(", ")", "{", "}", ";", ",", ".", "-", "+", "/", "*"}

TwoKind(c) ==
  CASE c = "!" -> "BangEqual"
    [] c = "=" -> "EqualEqual"
    [] c = "<" -> "LessEqual"
    [] c = ">" -> "GreaterEqual"

OneKind(c) ==
  CASE c = "!" -> "Bang"
    [] c = "=" -> "Equal"
    [] c = "<" -> "Less"
    [] c = ">" -> "Greater"

OperatorBytes == {"!", "=", "<", ">"}

\* mutant: after an unexpected byte the rest of the input is dropped
unexpected_halts(sc) ==
  [sc |-> [sc EXCEPT !.current = Len(sc.source)],
   token |-> error_token(sc, UnexpectedCharacter)]

\* the last arm of scan_token: any other byte
unexpected(sc) == [sc |-> sc, token |-> error_token(sc, UnexpectedCharacter)]

scan_token(sc0) ==
  LET sc1 == skip_whitespace(sc0)
      sc2 == [sc1 EXCEPT !.start = sc1.current]
      c   == advanced_byte(sc2)
      sc3 == advance(sc2)
  IN
  IF is_at_end(sc2) THEN [sc |-> sc2, token |-> make_token(sc2, "Eof")]
  ELSE IF c \in SingleBytes THEN [sc |-> sc3, token |-> make_token(sc3, SingleKind(c))]
  ELSE IF c \in OperatorBytes THEN
    IF matches_hit(sc3, "=")
      THEN [sc |-> matches(sc3, "="), token |-> make_token(matches(sc3, "="), TwoKind(c))]
      ELSE [sc |-> sc3, token |-> make_token(sc3, OneKind(c))]
  ELSE IF c = Quote THEN string(sc3)
  ELSE IF is_ascii_digit(c) THEN number(sc3)
  ELSE IF is_alpha(c) THEN identifier(sc3)
  ELSE unexpected(sc3)

(***************************************************************************)
(* Source buffers the scanner is run on.                                   *)
(***************************************************************************)
CoreAlphabet ==
  {" ", NL, "/", Quote, "=", "!", "a", "1", ".", NUL, "@", HighByte}

RECURSIVE SeqsUpTo(_, _)
SeqsUpTo(S, n) ==
  IF n = 0 THEN {<< >>}
  ELSE LET shorter == SeqsUpTo(S, n - 1) IN
       shorter \cup {Append(s, x) : s \in {t \in shorter : Len(t) = n - 1}, x \in S}

CoreSources == SeqsUpTo(CoreAlphabet, MaxLen)

\* an operator or punctuation byte, then "=", a space or a letter
OperatorSources ==
  {pre \o <<c>> \o tail :
     pre \in {<< >>, <<" ">>},
     c \in SingleBytes \cup OperatorBytes,
     tail \in SeqsUpTo({"=", " ", "a"}, MaxTail)}

KeywordTexts ==
  {<<"a", "n", "d">>, <<"c", "l", "a", "s", "s">>, <<"e", "l", "s", "e">>,
   <<"f", "a", "l", "s", "e">>, <<"f", "o", "r">>, <<"f", "u", "n">>,
   <<"i", "f">>, <<"n", "i", "l">>, <<"o", "r">>, <<"p", "r", "i", "n", "t">>,
   <<"r", "e", "t", "u", "r", "n">>, <<"s", "u", "p", "e", "r">>,
   <<"t", "h", "i", "s">>, <<"t", "r", "u", "e">>, <<"v", "a", "r">>,
   <<"w", "h", "i", "l", "e">>}

\* a keyword, its prefixes, the keyword with one byte changed, with one byte more
WordVariants(w) ==
  {SubSeq(w, 1, n) : n \in 1..Len(w)}
    \cup {Append(w, x) : x \in {"s", "_", "1", "F"}}
    \cup {[w EXCEPT ![i] = "x"] : i \in 1..Len(w)}
    \cup {SubSeq(w, 1, Len(w) - 1) \o <<"_">> \o SubSeq(w, Len(w), Len(w))}

Words ==
  UNION {WordVariants(w) : w \in KeywordTexts}
    \cup {<<"f", "o", "r", "e", "s", "t">>, <<"t", "h", "i", "s", "v", "a", "r">>,
          <<"_">>, <<"F", "o", "r">>, <<"t", "x">>, <<"f", "x">>}

WordSources ==
  {pre \o w \o post :
     pre \in {<< >>, <<" ">>, <<"1">>},
     w \in Words,
     post \in {<< >>, <<" ">>, <<"(">>, <<" ", "f", "o">>, <<".", "o", "r">>}}

CommentSources ==
  {pre \o <<"/", "/">> \o body \o post :
     pre \in {<< >>, <<" ">>, <<NL>>, <<"a">>, <<"/", " ">>},
     body \in SeqsUpTo({"a", "/", " ", Quote}, MaxComment),
     post \in {<< >>, <<NL>>, <<NL, "/">>, <<NL, "a">>, <<NL, "/", "/", "a">>,
               <<NL, NL, "/", "a">>}}

StringSources ==
  {pre \o <<Quote>> \o body \o post :
     pre \in {<< >>, <<" ">>, <<"a">>},
     body \in SeqsUpTo({"a", NL, "/"}, MaxComment),
     post \in {<< >>, <<Quote>>, <<Quote, "a">>, <<Quote, Quote>>, <<Quote, "a", Quote>>}}

NumberSources ==
  SeqsUpTo({"1", "2", ".", "e", "-"}, MaxNumber)
    \cup {<<"1", ".", "2", ".", "3">>, <<".", "5">>, <<"1", ".">>,
          <<"1", "e", "+", "5">>, <<"1", ".", "a">>, <<"1", ".", " ", "2">>}

Sources ==
  CoreSources \cup OperatorSources \cup WordSources \cup CommentSources
    \cup StringSources \cup NumberSources

(***************************************************************************)
(* The scanner as a state machine: one action, a call of scan_token.       *)
(***************************************************************************)
NoToken == [kind |-> "None", lexeme |-> << >>, line |-> 0]

NoMachine == [phase |-> "off"]

NoResult == [op |-> "none", a |-> 0, b |-> 0, out |-> [ok |-> TRUE, val |-> 0]]

EofCalls == Cardinality({i \in DOMAIN tokens : tokens[i].kind = "Eof"})

ScanInit ==
  /\ scanner \in {NewScanner(s) : s \in Sources}
  /\ prev = scanner
  /\ token = NoToken
  /\ tokens = << >>
  /\ heap = << >>
  /\ result = NoResult
  /\ machine = NoMachine

ScanToken ==
  /\ EofCalls < MaxEofCalls
  /\ ~ scanner.aborted
  /\ LET r == scan_token(scanner) IN
       /\ scanner' = r.sc
       /\ token' = r.token
       /\ tokens' = Append(tokens, r.token)
  /\ prev' = scanner
  /\ UNCHANGED <<valueVars, callVars>>

ScanNext == ScanToken

ScanSpec == ScanInit /\ [][ScanNext]_vars

(***************************************************************************)
(* Claims about the scanner.  Called is true once scan_token has been      *)
(* called; prev is then the scanner before the last call, scanner the      *)
(* scanner after it and token the token the call returned.                 *)
(***************************************************************************)
Called == tokens # << >>

Src == scanner.source

NonEofCount == Cardinality({i \in DOMAIN tokens : tokens[i].kind # "Eof"})

\* C1: every call of scan_token either returns a non-Eof token and leaves
\* current strictly greater than before, or returns Eof with current equal to
\* the length of the source; at most len(source) non-Eof tokens are returned;
\* once Eof was returned every later call returns Eof and changes neither
\* current nor line.
C1_ProgressOrEof ==
  Called =>
    /\ ~ scanner.aborted
    /\ \/ token.kind # "Eof" /\ scanner.current > prev.current
       \/ token.kind = "Eof" /\ scanner.current = Len(Src)
    /\ NonEofCount <= Len(Src)
    /\ \A i \in DOMAIN tokens : \A j \in DOMAIN tokens :
         (i < j /\ tokens[i].kind = "Eof") => tokens[j].kind = "Eof"
    /\ (Len(tokens) >= 2 /\ tokens[Len(tokens) - 1].kind = "Eof") =>
         /\ token.kind = "Eof"
         /\ scanner.current = prev.current
         /\ scanner.line = prev.line

\* two non-Eof tokens were returned, then Eof twice
C1_Witness ==
  /\ Len(tokens) = 4
  /\ tokens[1].kind # "Eof" /\ tokens[2].kind # "Eof"
  /\ tokens[3].kind = "Eof" /\ tokens[4].kind = "Eof"
  /\ Len(Src) = 3

\* the one-or-two character operators of the claim: byte, one-byte kind, two-byte kind
OperatorTable ==
  {<<"!", "Bang", "BangEqual">>, <<"=", "Equal", "EqualEqual">>,
   <<"<", "Less", "LessEqual">>, <<">", "Greater", "GreaterEqual">>}

\* the single-character punctuation of the claim
PunctuationTable ==
  {<<"(", "LeftParen">>, <<")", "RightParen">>, <<"{", "LeftBrace">>,
   <<"}", "RightBrace">>, <<";", "Semicolon">>, <<",", "Comma">>, <<".", "Dot">>,
   <<"-", "Minus">>, <<"+", "Plus">>, <<"*", "Star">>}

\* the token of the last call begins with byte c: the call found c at its first
\* byte that is not skipped (start), and did not return Eof
TokenBeginsWith(c) ==
  Called /\ token.kind # "Eof" /\ At(Src, scanner.start) = c

\* C2: a token that begins with '!', '=', '<' or '>' has the two-character kind,
\* a 2-byte lexeme and consumes 2 bytes exactly when the next byte is '=';
\* otherwise it has the one-character kind, a 1-byte lexeme and leaves the next
\* byte to the next call.  Each punctuation byte yields its own kind and
\* consumes 1 byte.  A call that starts at such a byte starts its token there.
C2_Operators ==
  /\ \A op \in OperatorTable :
       TokenBeginsWith(op[1]) =>
         IF scanner.start + 1 < Len(Src) /\ At(Src, scanner.start + 1) = "="
           THEN /\ token.kind = op[3]
                /\ token.lexeme = <<op[1], "=">>
                /\ scanner.current = scanner.start + 2
           ELSE /\ token.kind = op[2]
                /\ token.lexeme = <<op[1]>>
                /\ scanner.current = scanner.start + 1
  /\ \A pu \in PunctuationTable :
       TokenBeginsWith(pu[1]) =>
         /\ token.kind = pu[2]
         /\ token.lexeme = <<pu[1]>>
         /\ scanner.current = scanner.start + 1
  /\ (Called /\ prev.current < Len(Src)
        /\ At(Src, prev.current) \in
             {op[1] : op \in OperatorTable} \cup {pu[1] : pu \in PunctuationTable})
       => scanner.start = prev.current

\* "===" was scanned as EqualEqual, then Equal
C2_Witness ==
  /\ Src = <<"=", "=", "=">>
  /\ Len(tokens) = 2
  /\ tokens[1].kind = "EqualEqual"
  /\ tokens[2].kind = "Equal"
  /\ scanner.current = 3

\* the fixed keyword table of the claim
KeywordTable ==
  {<<"And", <<"a", "n", "d">> >>, <<"Class", <<"c", "l", "a", "s", "s">> >>,
   <<"Else", <<"e", "l", "s", "e">> >>, <<"False", <<"f", "a", "l", "s", "e">> >>,
   <<"For", <<"f", "o", "r">> >>, <<"Fun", <<"f", "u", "n">> >>,
   <<"If", <<"i", "f">> >>, <<"Nil", <<"n", "i", "l">> >>, <<"Or", <<"o", "r">> >>,
   <<"Print", <<"p", "r", "i", "n", "t">> >>,
   <<"Return", <<"r", "e", "t", "u", "r", "n">> >>,
   <<"Super", <<"s", "u", "p", "e", "r">> >>, <<"This", <<"t", "h", "i", "s">> >>,
   <<"True", <<"t", "r", "u", "e">> >>, <<"Var", <<"v", "a", "r">> >>,
   <<"While", <<"w", "h", "i", "l", "e">> >>}

IsAlnum(c) == c \in Letters \cup Digits \cup {"_"}

\* source[from..to) is a maximal run of [alpha_][alnum_]* starting at from
MaximalRun(s, from, to) ==
  /\ from < to /\ to <= Len(s)
  /\ At(s, from) \in Letters \cup {"_"}
  /\ \A i \in from..(to - 1) : IsAlnum(At(s, i))
  /\ to < Len(s) => ~ IsAlnum(At(s, to))

\* C3: a token that begins with a letter or '_' covers the maximal run of
\* identifier bytes; its kind is keyword kind K exactly when its lexeme is K's
\* keyword, and Identifier otherwise; the kind is decided by the bytes of
\* source[start..current] alone.
C3_Keywords ==
  (Called /\ token.kind # "Eof" /\ At(Src, scanner.start) \in Letters \cup {"_"}) =>
    /\ ~ scanner.aborted
    /\ MaximalRun(Src, scanner.start, scanner.current)
    /\ token.lexeme = Slice(Src, scanner.start, scanner.current)
    /\ \A kw \in KeywordTable : token.kind = kw[1] <=> token.lexeme = kw[2]
    /\ token.kind = "Identifier" <=> token.lexeme \notin {kw[2] : kw \in KeywordTable}
    /\ token.kind \in {"Identifier"} \cup {kw[1] : kw \in KeywordTable}
    /\ token.kind =
         identifier_kind([NewScanner(token.lexeme) EXCEPT !.current = Len(token.lexeme)])

\* "this" was scanned as This and "fo" after it as Identifier
C3_Witness ==
  /\ Len(tokens) = 2
  /\ tokens[1] = [kind |-> "This", lexeme |-> <<"t", "h", "i", "s">>, line |-> 1]
  /\ tokens[2] = [kind |-> "Identifier", lexeme |-> <<"f", "o">>, line |-> 1]

\* "forest" was scanned as one Identifier
C3_WitnessForest ==
  /\ Called
  /\ token = [kind |-> "Identifier", lexeme |-> <<"f", "o", "r", "e", "s", "t">>,
              line |-> 1]

\* the positions of a '"' after position from
ClosingQuotes(s, from) == {q \in (from + 1)..(Len(s) - 1) : At(s, q) = Quote}

Least(S) == CHOOSE x \in S : \A y \in S : x <= y

\* C4: a token that begins with '"' is, when no '"' follows before the end of
\* the input, one Error token with the lexeme "Unterminated string." that
\* leaves current at the length of the source, and the next call returns Eof;
\* when a '"' follows, it is a String token whose lexeme runs from the opening
\* quote through the first following '"'.  The scanner does not abort.
C4_Strings ==
  /\ Called => ~ scanner.aborted
  /\ TokenBeginsWith(Quote) =>
       IF ClosingQuotes(Src, scanner.start) = {}
         THEN /\ token.kind = "Error"
              /\ token.lexeme = UnterminatedString
              /\ scanner.current = Len(Src)
         ELSE LET q == Least(ClosingQuotes(Src, scanner.start)) IN
              /\ token.kind = "String"
              /\ token.lexeme = Slice(Src, scanner.start, q + 1)
              /\ scanner.current = q + 1
  /\ \A i \in DOMAIN tokens :
       (tokens[i].kind = "Error" /\ tokens[i].lexeme = UnterminatedString
          /\ i < Len(tokens))
         => tokens[i + 1].kind = "Eof"
  /\ token.kind = "String" => At(Src, scanner.start) = Quote
  /\ (token.kind = "Error" /\ token.lexeme = UnterminatedString) =>
       At(Src, scanner.start) = Quote

\* an unterminated string was scanned after another token, and Eof after it
C4_Witness ==
  /\ Len(tokens) = 3
  /\ tokens[1].kind = "Identifier"
  /\ tokens[2] = [kind |-> "Error", lexeme |-> UnterminatedString, line |-> 2]
  /\ tokens[3].kind = "Eof"

\* a terminated string was scanned, with more input after its closing quote
C4_WitnessString ==
  /\ Called
  /\ token.kind = "String"
  /\ Len(token.lexeme) = 3
  /\ scanner.current < Len(Src)

IsBlank(c) == c \in {" ", "\r", "\t", NL}

\* the first position at or after p that holds no blank byte (or the length)
FirstNonBlank(s, p) ==
  Least({q \in p..Len(s) : q = Len(s) \/ ~ IsBlank(At(s, q))})

\* the first position at or after p that holds '\n' (or the length)
NextNewline(s, p) ==
  Least({q \in p..Len(s) : q = Len(s) \/ At(s, q) = NL})

CountNewlines(s, from, to) ==
  Cardinality({i \in from..(to - 1) : At(s, i) = NL})

CommentAt(s, q) == q + 1 < Len(s) /\ At(s, q) = "/" /\ At(s, q + 1) = "/"

\* C5: when the first byte a call does not skip as blank begins "//", no token
\* starts before the '\n' that ends the comment (or the end of the input), that
\* '\n' is skipped too, and the line counter grows by the number of '\n' bytes
\* the call passed, none of them a byte of the comment; a '/' that no '/'
\* follows is returned as a Slash token of that one byte.
C5_Comments ==
  Called =>
    LET q == FirstNonBlank(Src, prev.current) IN
    /\ CommentAt(Src, q) =>
         LET r == NextNewline(Src, q) IN
         /\ scanner.start >= r
         /\ r < Len(Src) => scanner.start > r
         /\ r < Len(Src) => scanner.line >= prev.line + 1
         /\ scanner.line - prev.line
              = CountNewlines(Src, prev.current, scanner.current)
         /\ token.kind \notin {"String", "Error"} =>
              scanner.line - prev.line
                = CountNewlines(Src, prev.current, q)
                    + CountNewlines(Src, r, scanner.start)
    /\ (q < Len(Src) /\ At(Src, q) = "/" /\ ~ CommentAt(Src, q)) =>
         /\ token = [kind |-> "Slash", lexeme |-> <<"/">>, line |-> scanner.line]
         /\ scanner.start = q
         /\ scanner.current = q + 1

\* a comment with a body was skipped, its newline counted once, and the '/'
\* on the next line returned as Slash on line 2
C5_Witness ==
  /\ Slice(Src, 0, 5) = <<"/", "/", "a", NL, "/">>
  /\ Len(tokens) = 1
  /\ token = [kind |-> "Slash", lexeme |-> <<"/">>, line |-> 2]
  /\ scanner.start = 4

\* the first position at or after p that holds no digit (or the length)
DigitRunEnd(s, p) ==
  Least({q \in p..Len(s) : q = Len(s) \/ At(s, q) \notin Digits})

\* where the longest match of digit+ ('.' digit+)? that starts at p ends
NumberEnd(s, p) ==
  LET n == DigitRunEnd(s, p) IN
  IF n + 1 < Len(s) /\ At(s, n) = "." /\ At(s, n + 1) \in Digits
    THEN DigitRunEnd(s, n + 1)
    ELSE n

\* the kinds and lexemes of the tokens returned before Eof
Scanned == [i \in 1..NonEofCount |-> <<tokens[i].kind, tokens[i].lexeme>>]

\* C17: a token that begins with a digit is a Number whose lexeme is the
\* longest match of digit+ optionally followed by '.' digit+; a '.' is part of
\* it only when a digit follows the '.'; every byte of a Number lexeme is a
\* digit or the one '.', never an exponent letter or a sign; "1." scans as
\* Number("1"), Dot; "1.2.3" as Number("1.2"), Dot, Number("3"); ".5" as Dot,
\* Number("5").
C17_Numbers ==
  /\ (Called /\ token.kind # "Eof" /\ At(Src, scanner.start) \in Digits) =>
       /\ token.kind = "Number"
       /\ scanner.current = NumberEnd(Src, scanner.start)
       /\ token.lexeme = Slice(Src, scanner.start, NumberEnd(Src, scanner.start))
  /\ token.kind = "Number" =>
       /\ At(Src, scanner.start) \in Digits
       /\ token.lexeme[Len(token.lexeme)] \in Digits
       /\ \A i \in DOMAIN token.lexeme : token.lexeme[i] \in Digits \cup {"."}
       /\ Cardinality({i \in DOMAIN token.lexeme : token.lexeme[i] = "."}) <= 1
  /\ (Src = <<"1", ".">> /\ token.kind = "Eof") =>
       Scanned = <<(<<"Number", <<"1">> >>), (<<"Dot", <<".">> >>)>>
  /\ (Src = <<"1", ".", "2", ".", "3">> /\ token.kind = "Eof") =>
       Scanned = <<(<<"Number", <<"1", ".", "2">> >>), (<<"Dot", <<".">> >>),
                   (<<"Number", <<"3">> >>)>>
  /\ (Src = <<".", "5">> /\ token.kind = "Eof") =>
       Scanned = <<(<<"Dot", <<".">> >>), (<<"Number", <<"5">> >>)>>

\* "1.2.3" was scanned to its end as Number("1.2"), Dot, Number("3")
C17_Witness ==
  /\ Src = <<"1", ".", "2", ".", "3">>
  /\ Len(tokens) = 4
  /\ tokens[1] = [kind |-> "Number", lexeme |-> <<"1", ".", "2">>, line |-> 1]
  /\ tokens[2].kind = "Dot"
  /\ tokens[3] = [kind |-> "Number", lexeme |-> <<"3">>, line |-> 1]
  /\ tokens[4].kind = "Eof"

\* a byte that is no whitespace, punctuation, operator, quote, digit, letter
\* or '_'
IsOther(c) ==
  c \notin {" ", "\r", "\t", NL, Quote, "_"} \cup SingleBytes \cup OperatorBytes
             \cup Digits \cup Letters

IsUnexpected(t) == t.kind = "Error" /\ t.lexeme = UnexpectedCharacter

\* the tokens the calls of scan_token return from sc on, through the first Eof
RECURSIVE Rest(_)
Rest(sc) ==
  LET r == scan_token(sc) IN
  IF r.token.kind = "Eof" \/ r.sc.aborted THEN <<r.token>> ELSE <<r.token>> \o Rest(r.sc)

\* the scanner of the source with the byte at p a space, about to scan at p
WithSpaceAt(sc, p) ==
  [sc EXCEPT !.source = [sc.source EXCEPT ![p + 1] = " "], !.current = p]

\* C18: a byte that is no whitespace, punctuation, operator, '"', digit, letter
\* or '_' (the NUL byte and a byte >= 128 included), met where a token starts,
\* yields one Error token with the lexeme "Unexpected character." on the
\* current line and consumes that one byte; scanning goes on: the next call
\* resumes at the following byte, and the tokens after the Error token are
\* those scanned when the byte is a space.
C18_UnexpectedByte ==
  /\ (Called /\ token.kind # "Eof" /\ IsOther(At(Src, scanner.start))) =>
       /\ token = [kind |-> "Error", lexeme |-> UnexpectedCharacter, line |-> scanner.line]
       /\ scanner.current = scanner.start + 1
       /\ ~ scanner.aborted
       /\ Rest(scanner) = Rest(WithSpaceAt(scanner, scanner.start))
  /\ (Called /\ prev.current < Len(Src) /\ IsOther(At(Src, prev.current))) =>
       /\ scanner.start = prev.current
       /\ IsUnexpected(token)
  /\ IsUnexpected(token) => IsOther(At(Src, scanner.start))
  /\ (Len(tokens) >= 2 /\ IsUnexpected(tokens[Len(tokens) - 1])) =>
       /\ prev.current = prev.start + 1
       /\ scanner.start >= prev.current
       /\ scanner.start = prev.current \/ token.kind = "Eof"
            \/ IsBlank(At(Src, prev.current)) \/ CommentAt(Src, prev.current)

\* the NUL byte and a byte >= 128 each gave an Error token, and the letter
\* after them an Identifier
C18_Witness ==
  /\ Src = <<NUL, HighByte, "a">>
  /\ Len(tokens) = 3
  /\ IsUnexpected(tokens[1]) /\ IsUnexpected(tokens[2])
  /\ tokens[3] = [kind |-> "Identifier", lexeme |-> <<"a">>, line |-> 1]

\* the 1-based line of position p: 1 plus the '\n' bytes before p
LineOf(s, p) == 1 + CountNewlines(s, 0, p)

\* C19: after every call of scan_token the line counter is 1 plus the number
\* of '\n' bytes in source[0..current) and the returned token's line is that
\* value: each newline consumed, in whitespace, at the end of a comment or
\* inside a string, is counted once; lines start at 1 and never decrease from
\* one token to the next; a String token reports the line of its closing
\* quote, an unterminated string the line of the end of the input.
C19_Lines ==
  Called =>
    /\ scanner.line = LineOf(Src, scanner.current)
    /\ token.line = scanner.line
    /\ \A i \in DOMAIN tokens : tokens[i].line >= 1
    /\ \A i \in DOMAIN tokens : \A j \in DOMAIN tokens :
         i < j => tokens[i].line <= tokens[j].line
    /\ scanner.line - prev.line = CountNewlines(Src, prev.current, scanner.current)
    /\ token.kind = "String" =>
         /\ At(Src, scanner.current - 1) = Quote
         /\ token.line = LineOf(Src, scanner.current - 1)
         /\ token.line
              = LineOf(Src, scanner.start) + CountNewlines(token.lexeme, 0, Len(token.lexeme))
    /\ (token.kind = "Error" /\ token.lexeme = UnterminatedString) =>
         token.line = LineOf(Src, Len(Src))

\* a string with two newlines inside was scanned on line 3, and the
\* identifier after its closing quote on line 3 too
C19_Witness ==
  /\ Src = <<Quote, NL, NL, Quote, "a">>
  /\ Len(tokens) = 2
  /\ tokens[1] = [kind |-> "String", lexeme |-> <<Quote, NL, NL, Quote>>, line |-> 3]
  /\ tokens[2] = [kind |-> "Identifier", lexeme |-> <<"a">>, line |-> 3]

\* position i lies in a // comment that begins at or after lo
InComment(s, lo, i) ==
  \E q \in lo..i : CommentAt(s, q) /\ \A k \in q..i : At(s, k) # NL

\* C20: after every call of scan_token, 0 <= start <= current <= len(source)
\* and no byte was read at or past the end of the source (advance ran only
\* with current < len(source)); the lexeme of a token that is no Error is
\* source[start..current]; the byte ranges of successive tokens are disjoint
\* and increase; every byte between the ranges of two successive tokens is
\* whitespace or a byte of a // comment.
C20_Ranges ==
  Called =>
    /\ ~ scanner.aborted
    /\ 0 <= scanner.start
    /\ scanner.start <= scanner.current
    /\ scanner.current <= Len(Src)
    /\ token.kind # "Error" =>
         /\ Len(token.lexeme) = scanner.current - scanner.start
         /\ \A i \in DOMAIN token.lexeme : token.lexeme[i] = Src[scanner.start + i]
    /\ prev.start <= prev.current
    /\ prev.current <= scanner.start
    /\ (Len(tokens) >= 2 /\ token.kind # "Eof") => prev.start < scanner.start
    /\ \A i \in prev.current..(scanner.start - 1) :
         IsBlank(At(Src, i)) \/ InComment(Src, prev.current, i)

\* after the identifier a and the comment "//a" with its newline, the
\* identifier on the next line was scanned: four bytes lie between the two
\* tokens
C20_Witness ==
  /\ Src = <<"a", "/", "/", "a", NL, "a">>
  /\ Len(tokens) = 2
  /\ prev.start = 0 /\ prev.current = 1
  /\ scanner.start = 5 /\ scanner.current = 6
  /\ token = [kind |-> "Identifier", lexeme |-> <<"a">>, line |-> 2]

(***************************************************************************)
(* The runtime values (object.rs).  An Object is a record with its variant *)
(* in tag.  A Number's payload is an f64: a finite value (the model keeps  *)
(* whole numbers and the negative zero) or NaN.  A String's payload is its *)
(* text, whose len() is Len.                                               *)
(***************************************************************************)
Finite(v) == [cls |-> "finite", v |-> v, neg0 |-> FALSE]

NegZero == [cls |-> "finite", v |-> 0, neg0 |-> TRUE]

NaN == [cls |-> "nan", v |-> 0, neg0 |-> FALSE]

\* f64's ==
F64Eq(x, y) == x.cls = "finite" /\ y.cls = "finite" /\ x.v = y.v

DigitChar(d) == <<"0", "1", "2", "3", "4", "5", "6", "7", "8", "9">>[d + 1]

RECURSIVE DecimalString(_)
DecimalString(n) ==
  IF n < 10 THEN DigitChar(n) ELSE DecimalString(n \div 10) \o DigitChar(n % 10)

\* f64's Display
F64Display(x) ==
  IF x.cls = "nan" THEN "NaN"
  ELSE IF x.neg0 THEN "-0"
  ELSE DecimalString(x.v)

ObjNil == [tag |-> "Nil"]

ObjBool(b) == [tag |-> "Bool", b |-> b]

ObjNumber(n) == [tag |-> "Number", n |-> n]

ObjString(s) == [tag |-> "String", s |-> s]

ObjBuiltinFunction(arity, func) ==
  [tag |-> "BuiltinFunction", arity |-> arity, func |-> func]

ObjFunction(declaration) == [tag |-> "Function", declaration |-> declaration]

\* the three cells of lazy_static!
NIL == 1

LoxTrue == 2

LoxFalse == 3

StaticHeap == <<ObjNil, ObjBool(TRUE), ObjBool(FALSE)>>

\* Arc::new(RwLock::new(object)): a cell no handle named before
Alloc(h, object) == [heap |-> Append(h, object), handle |-> Len(h) + 1]

new_number(h, value) == Alloc(h, ObjNumber(value))

\* mutant: every Bool is a cell of its own
new_bool_fresh(h, value) == Alloc(h, ObjBool(value))

new_bool(h, value) == [heap |-> h, handle |-> IF value THEN LoxTrue ELSE LoxFalse]

nil(h) == [heap |-> h, handle |-> NIL]

new_string(h, value) == Alloc(h, ObjString(value))

new_builtin_function(h, arity, func) == Alloc(h, ObjBuiltinFunction(arity, func))

new_function(h, declaration) == Alloc(h, ObjFunction(declaration))

is_nil(o) == o.tag = "Nil"

is_string(o) == o.tag = "String"

is_number(o) == o.tag = "Number"

is_bool(o) == o.tag = "Bool"

is_callable(o) == o.tag \in {"BuiltinFunction", "Function"}

\* what a method returned: a value, or no value (a panic)
Returned(val) == [ok |-> TRUE, val |-> val]

Panicked == [ok |-> FALSE, val |-> "panic"]

\* impl Display for Object
to_string(o) ==
  CASE o.tag = "Nil" -> "nil"
    [] o.tag = "String" -> o.s
    [] o.tag = "Number" -> F64Display(o.n)
    [] o.tag = "Bool" -> IF o.b THEN "true" ELSE "false"
    [] o.tag = "BuiltinFunction" -> "<native fn>"
    [] o.tag = "Function" -> "<fn " \o o.declaration.name.lexeme \o ">"

as_string(o) == IF o.tag = "String" THEN o.s ELSE to_string(o)

\* mutant: a String is parsed as a decimal numeral (text that is none gives 0)
as_number_parsed(o) ==
  CASE o.tag = "Nil" -> Returned(Finite(0))
    [] o.tag = "String" ->
         Returned(Finite(CASE o.s = "1" -> 1 [] o.s = "12" -> 12 [] OTHER -> 0))
    [] o.tag = "Number" -> Returned(o.n)
    [] o.tag = "Bool" -> Returned(Finite(IF o.b THEN 1 ELSE 0))
    [] OTHER -> Panicked

as_number(o) ==
  CASE o.tag = "Nil" -> Returned(Finite(0))
    [] o.tag = "String" -> Returned(Finite(Len(o.s)))
    [] o.tag = "Number" -> Returned(o.n)
    [] o.tag = "Bool" -> Returned(Finite(IF o.b THEN 1 ELSE 0))
    [] OTHER -> Panicked

\* mutant: the number 0 and the empty string are falsy too
as_bool_zero_falsy(o) ==
  CASE o.tag = "Bool" -> o.b
    [] o.tag = "Nil" -> FALSE
    [] o.tag = "Number" -> ~ (o.n.cls = "finite" /\ o.n.v = 0)
    [] o.tag = "String" -> o.s # ""
    [] OTHER -> TRUE

as_bool(o) ==
  CASE o.tag = "Bool" -> o.b
    [] o.tag = "Nil" -> FALSE
    [] OTHER -> TRUE

\* std::usize::MAX, as the largest integer the checker represents
UsizeMax == 2147483647

\* mutant: a Function's arity is the length of its body
arity_of_body(o) ==
  CASE o.tag = "BuiltinFunction" -> o.arity
    [] o.tag = "Function" -> Len(o.declaration.body)
    [] OTHER -> UsizeMax

arity(o) ==
  CASE o.tag = "BuiltinFunction" -> o.arity
    [] o.tag = "Function" -> Len(o.declaration.params)
    [] OTHER -> UsizeMax

\* mutant: a Bool on either side decides by truthiness
eq_bool_on_either_side(x, y) ==
  IF is_nil(x) /\ is_nil(y) THEN TRUE
  ELSE IF is_nil(x) \/ is_nil(y) THEN FALSE
  ELSE IF is_bool(x) \/ is_bool(y) THEN as_bool(x) = as_bool(y)
  ELSE IF is_number(x) /\ is_number(y) THEN F64Eq(as_number(x).val, as_number(y).val)
  ELSE IF is_string(x) /\ is_string(y) THEN as_string(x) = as_string(y)
  ELSE FALSE

\* impl PartialEq for Object
eq(x, y) ==
  IF is_nil(x) /\ is_nil(y) THEN TRUE
  ELSE IF is_nil(x) \/ is_nil(y) THEN FALSE
  ELSE IF is_bool(x) /\ is_bool(y) THEN as_bool(x) = as_bool(y)
  ELSE IF is_number(x) /\ is_number(y) THEN F64Eq(as_number(x).val, as_number(y).val)
  ELSE IF is_string(x) /\ is_string(y) THEN as_string(x) = as_string(y)
  ELSE FALSE

(***************************************************************************)
(* The statement tree (stmt.rs).  A name token is the record of its        *)
(* lexeme; an Option is the empty or the one-element sequence.             *)
(***************************************************************************)
Ident(name) == [lexeme |-> name]

StmtBlock(statements) == [type |-> "Block", statements |-> statements]

StmtExpression(expression) == [type |-> "Expression", expression |-> expression]

StmtFunction(name, params, body) ==
  [type |-> "Function", name |-> Ident(name),
   params |-> [i \in DOMAIN params |-> Ident(params[i])], body |-> body]

StmtIf(condition, then_branch, else_branch) ==
  [type |-> "If", condition |-> condition, then_branch |-> then_branch,
   else_branch |-> else_branch]

StmtPrint(expression) == [type |-> "Print", expression |-> expression]

StmtVar(name, initializer) ==
  [type |-> "Var", name |-> Ident(name), initializer |-> initializer]

StmtWhile(condition, body) == [type |-> "While", condition |-> condition, body |-> body]

\* the expressions of section 3 of the design that the calls need
ExprLiteral(value) == [type |-> "Literal", value |-> value]

ExprVariable(name) == [type |-> "Variable", name |-> Ident(name)]

ExprAssign(name, value) == [type |-> "Assign", name |-> Ident(name), value |-> value]

ExprCall(callee, arguments) ==
  [type |-> "Call", callee |-> callee, arguments |-> arguments]

(***************************************************************************)
(* The interpreter.  object.rs holds the call protocol (call, arity); the  *)
(* Environment and the evaluator it calls are modelled from the design     *)
(* (sections 4.2 and 4.4).  The machine m is the interpreter with the      *)
(* cells it reaches:                                                       *)
(*   heap         the value cells                                          *)
(*   envs         every Environment made so far; a scope is its index      *)
(*   environment  interpreter.environment, the active scope                *)
(*   globals      interpreter.globals                                      *)
(*   output       the lines printed                                        *)
(* and, to state the claims, what happened:                                *)
(*   frame        the scope of the innermost Function invocation (0: none) *)
(*   lookups      every variable read: name, active scope, owning scope    *)
(*   entries      every entry of a Function's call: its scope and site     *)
(*   calls        every call expression evaluated, with its outcome        *)
(*   raised       every runtime error, in the order raised                 *)
(*   executed     every statement of a statement list that was started     *)
(*   writes       every assignment made: name, owning scope, value         *)
(*   defined      every binding defined: scope, name, value                *)
(* A cell is an Arc<RwLock<Object>>: a method of Object is called through  *)
(* a guard of the cell's lock, and call(&mut self, ..) through the write   *)
(* guard, which its caller holds until call returns:                       *)
(*   held         the cells whose write guard an active call holds         *)
(*   relock       what the lock does when the thread that holds its write  *)
(*                guard acquires it again: it never returns ("blocked") or *)
(*                it panics ("lock-panic")                                 *)
(*   stuck        every acquisition of a held cell's lock                  *)
(* An evaluation returns the machine after it, err ("none", a runtime      *)
(* error, "panic" when an index or an unreachable arm aborts the process,  *)
(* or the outcome of relock) and the handle of its value.                  *)
(***************************************************************************)
Ok(m, val) == [m |-> m, err |-> "none", val |-> val]

Fail(m, err) == [m |-> m, err |-> err, val |-> 0]

\* a RuntimeError is made
Raise(m, err) == Fail([m EXCEPT !.raised = Append(@, err)], err)

NoValues == [n \in {} |-> 0]

\* the errors of the taxonomy (section 7 of the design)
RuntimeErrors == {"undefined-variable", "type-mismatch", "not-callable", "arity-mismatch"}

\* std::sync::RwLock, acquired by the thread that holds its write guard
RelockOutcomes == {"blocked", "lock-panic"}

\* cell.read() or cell.write(): the guard of the cell's lock is acquired
guard(m, cell) ==
  IF cell \in m.held
    THEN Fail([m EXCEPT !.stuck = Append(@, [cell |-> cell, frame |-> m.frame])], m.relock)
    ELSE Ok(m, cell)

\* Environment::new_enclosed
new_enclosed(m, parent) ==
  [m |-> [m EXCEPT !.envs = Append(@, [values |-> NoValues, enclosing |-> parent])],
   id |-> Len(m.envs) + 1]

\* Environment::define
define(m, env, name, value) ==
  [m EXCEPT !.envs[env].values = (name :> value) @@ @,
            !.defined = Append(@, [env |-> env, name |-> name, value |-> value])]

\* the scope that owns name, walking outward from env (0: none does)
RECURSIVE Owner(_, _, _)
Owner(m, env, name) ==
  IF env = 0 THEN 0
  ELSE IF name \in DOMAIN m.envs[env].values THEN env
  ELSE Owner(m, m.envs[env].enclosing, name)

\* Environment::get
get(m, name) ==
  LET owner == Owner(m, m.environment, name)
      seen  == [m EXCEPT !.lookups =
                  Append(@, [name |-> name, active |-> m.environment,
                             found |-> owner, frame |-> m.frame,
                             value |-> IF owner = 0 THEN 0
                                       ELSE m.envs[owner].values[name]])]
  IN IF owner = 0
       THEN Raise(seen, "undefined-variable")
       ELSE Ok(seen, m.envs[owner].values[name])

\* Environment::assign
assign(m, name, value) ==
  LET owner == Owner(m, m.environment, name) IN
  IF owner = 0
    THEN Raise(m, "undefined-variable")
    ELSE Ok([m EXCEPT !.envs[owner].values[name] = value,
                      !.writes = Append(@, [name |-> name, owner |-> owner,
                                            value |-> value, frame |-> m.frame])],
            value)

\* a literal is made by the factory of its variant
literal(m, o) ==
  LET r == CASE o.tag = "Nil" -> nil(m.heap)
             [] o.tag = "Bool" -> new_bool(m.heap, o.b)
             [] o.tag = "Number" -> new_number(m.heap, o.n)
             [] o.tag = "String" -> new_string(m.heap, o.s)
  IN Ok([m EXCEPT !.heap = r.heap], r.handle)

\* the host's native functions: clock() and id(v)
native(func, h, arguments) ==
  CASE func = "clock" -> new_number(h, Finite(0))
    [] func = "id" -> [heap |-> h, handle |-> arguments[1]]

\* The evaluator is recursive over the tree.  Its recursion goes through the
\* one operator Walk, which dispatches on the kind of work: a statement, a
\* statement list, an expression, an argument list, a call.
RECURSIVE Walk(_, _)

\* Stmt::accept(interpreter): one statement is executed
Exec(stmt, m) == Walk([kind |-> "stmt", stmt |-> stmt], m)

\* the statements statements[i..] are executed in order, up to the first error
ExecAll(statements, i, m) ==
  Walk([kind |-> "stmts", statements |-> statements, i |-> i], m)

\* Expr::accept(interpreter): one expression is evaluated
Eval(expr, m) == Walk([kind |-> "expr", expr |-> expr], m)

\* the values of exprs[i..], in order, after those of acc
EvalAll(exprs, i, acc, m) ==
  Walk([kind |-> "exprs", exprs |-> exprs, i |-> i, acc |-> acc], m)

\* callee.call(interpreter, arguments): Object::call is applied
Invoke(o, arguments, m) ==
  Walk([kind |-> "call", o |-> o, arguments |-> arguments], m)

\* Interpreter::execute_block: the statements run in scope env, and the scope
\* active before is active again on every exit
execute_block(statements, env, m) ==
  LET r == ExecAll(statements, 1, [m EXCEPT !.environment = env]) IN
  [r EXCEPT !.m.environment = m.environment]

\* mutant: the invocation's scope encloses the scope active at the call site
call_scope_of_caller(m) == m.environment

\* interpreter.globals.clone(): the scope the invocation's scope encloses
call_scope(m) == m.globals

\* mutant: each parameter is bound to a new cell holding a copy of the argument
RECURSIVE bind_params_copied(_, _, _, _, _)
bind_params_copied(params, arguments, i, env, m) ==
  IF i > Len(params) THEN Ok(m, 0)
  ELSE IF i > Len(arguments) THEN Fail(m, "panic")
  ELSE LET copy == Alloc(m.heap, m.heap[arguments[i]]) IN
       bind_params_copied(params, arguments, i + 1, env,
                          define([m EXCEPT !.heap = copy.heap], env,
                                 params[i].lexeme, copy.handle))

\* for i in 0..params.len(): environment.define(params[i].lexeme, arguments[i])
RECURSIVE bind_params(_, _, _, _, _)
bind_params(params, arguments, i, env, m) ==
  IF i > Len(params) THEN Ok(m, 0)
  ELSE IF i > Len(arguments) THEN Fail(m, "panic")
  ELSE bind_params(params, arguments, i + 1, env,
                   define(m, env, params[i].lexeme, arguments[i]))

\* mutant: the value of a finished call is the false singleton
function_result_false(h) == new_bool(h, FALSE)

\* Ok(Object::nil())
function_result(h) == nil(h)

\* mutant: an error of the body is dropped and the call yields Nil
propagate_swallowed(done, err) == Ok(done, NIL)

\* execute_block(..)?: the body's error is the call's result
propagate(done, err) == Fail(done, err)

\* the Function arm of call
call_function(f, m, arguments) ==
  LET made  == new_enclosed(m, call_scope(m))
      bound == bind_params(f.declaration.params, arguments, 1, made.id,
                           [made.m EXCEPT !.frame = made.id])
      entry == [env |-> made.id, enclosing |-> made.m.envs[made.id].enclosing,
                site |-> m.environment, nargs |-> Len(arguments),
                nparams |-> Len(f.declaration.params),
                params |-> f.declaration.params, arguments |-> arguments,
                values |-> bound.m.envs[made.id].values,
                cells |-> <<Len(m.heap), Len(bound.m.heap)>>,
                globals |-> <<m.envs[m.globals].values, bound.m.envs[m.globals].values>>]
      entered == [bound.m EXCEPT !.entries = Append(@, entry)]
      body  == execute_block(f.declaration.body, made.id, entered)
      done  == [body.m EXCEPT !.frame = m.frame]
  IN IF bound.err # "none" THEN Fail([entered EXCEPT !.frame = m.frame], bound.err)
     ELSE IF body.err # "none" THEN propagate(done, body.err)
     ELSE LET r == function_result(done.heap) IN
          Ok([done EXCEPT !.heap = r.heap], r.handle)

\* Object::call
call(o, m, arguments) ==
  CASE o.tag = "BuiltinFunction" ->
         LET r == native(o.func, m.heap, arguments) IN
         Ok([m EXCEPT !.heap = r.heap], r.handle)
    [] o.tag = "Function" -> call_function(o, m, arguments)
    [] OTHER -> Fail(m, "panic")

\* the evaluator's call expression: callee, arguments left to right, the
\* callability and arity checks, then Object::call
visit_call_expr(expr, m) ==
  LET callee == Eval(expr.callee, m)
      args   == EvalAll(expr.arguments, 1, << >>, callee.m)
      before == args.m
      locked == guard(before, callee.val)
      o      == before.heap[callee.val]
      checked ==
        IF ~ is_callable(o) THEN Raise(before, "not-callable")
        ELSE IF Len(args.val) # arity(o) THEN Raise(before, "arity-mismatch")
        ELSE LET r == call(o, [before EXCEPT !.held = @ \cup {callee.val}], args.val)
             IN [r EXCEPT !.m.held = before.held]
      record == [callee |-> o, cell |-> callee.val, nargs |-> Len(args.val),
                 site |-> before.environment,
                 entered |-> is_callable(o) /\ Len(args.val) = arity(o),
                 err |-> checked.err, val |-> checked.val,
                 envsBefore |-> Len(before.envs), envsAfter |-> Len(checked.m.envs),
                 outputBefore |-> Len(before.output),
                 outputAfter |-> Len(checked.m.output)]
  IN IF callee.err # "none" THEN callee
     ELSE IF args.err # "none" THEN Fail(args.m, args.err)
     ELSE IF locked.err # "none" THEN locked
     ELSE [checked EXCEPT !.m.calls = Append(@, record)]

visit_expr(expr, m) ==
  CASE expr.type = "Literal" -> literal(m, expr.value)
    [] expr.type = "Variable" -> get(m, expr.name.lexeme)
    [] expr.type = "Assign" ->
         LET r == Eval(expr.value, m) IN
         IF r.err # "none" THEN r ELSE assign(r.m, expr.name.lexeme, r.val)
    [] expr.type = "Call" -> visit_call_expr(expr, m)

visit_exprs(exprs, i, acc, m) ==
  IF i > Len(exprs) THEN Ok(m, acc)
  ELSE LET r == Eval(exprs[i], m) IN
       IF r.err # "none" THEN r
       ELSE EvalAll(exprs, i + 1, Append(acc, r.val), r.m)

visit_stmts(statements, i, m) ==
  IF i > Len(statements) THEN Ok(m, 0)
  ELSE LET started == [m EXCEPT !.executed =
                         Append(@, [frame |-> m.frame, scope |-> m.environment,
                                    i |-> i, raised |-> Len(m.raised),
                                    stuck |-> Len(m.stuck)])]
           r == Exec(statements[i], started)
       IN IF r.err # "none" THEN r ELSE ExecAll(statements, i + 1, r.m)

visit_stmt(stmt, m) ==
  CASE stmt.type = "Block" ->
         LET made == new_enclosed(m, m.environment) IN
         execute_block(stmt.statements, made.id, made.m)
    [] stmt.type = "Expression" ->
         LET r == Eval(stmt.expression, m) IN
         IF r.err # "none" THEN r ELSE Ok(r.m, 0)
    [] stmt.type = "Function" ->
         LET r == new_function(m.heap, stmt) IN
         Ok(define([m EXCEPT !.heap = r.heap], m.environment, stmt.name.lexeme,
                   r.handle), 0)
    [] stmt.type = "If" ->
         LET r == Eval(stmt.condition, m) IN
         IF r.err # "none" THEN r
         ELSE IF guard(r.m, r.val).err # "none" THEN guard(r.m, r.val)
         ELSE IF as_bool(r.m.heap[r.val]) THEN Exec(stmt.then_branch, r.m)
         ELSE IF stmt.else_branch # << >> THEN Exec(stmt.else_branch[1], r.m)
         ELSE Ok(r.m, 0)
    [] stmt.type = "Print" ->
         LET r == Eval(stmt.expression, m) IN
         IF r.err # "none" THEN r
         ELSE IF guard(r.m, r.val).err # "none" THEN guard(r.m, r.val)
         ELSE Ok([r.m EXCEPT !.output = Append(@, to_string(r.m.heap[r.val]))], 0)
    [] stmt.type = "Var" ->
         LET r == IF stmt.initializer = << >>
                    THEN Ok(m, nil(m.heap).handle)
                    ELSE Eval(stmt.initializer[1], m)
         IN IF r.err # "none" THEN r
            ELSE Ok(define(r.m, r.m.environment, stmt.name.lexeme, r.val), 0)
    [] stmt.type = "While" ->
         LET r == Eval(stmt.condition, m) IN
         IF r.err # "none" THEN r
         ELSE IF guard(r.m, r.val).err # "none" THEN guard(r.m, r.val)
         ELSE IF ~ as_bool(r.m.heap[r.val]) THEN Ok(r.m, 0)
         ELSE LET b == Exec(stmt.body, r.m) IN
              IF b.err # "none" THEN b ELSE Exec(stmt, b.m)

Walk(work, m) ==
  CASE work.kind = "stmt" -> visit_stmt(work.stmt, m)
    [] work.kind = "stmts" -> visit_stmts(work.statements, work.i, m)
    [] work.kind = "expr" -> visit_expr(work.expr, m)
    [] work.kind = "exprs" -> visit_exprs(work.exprs, work.i, work.acc, m)
    [] work.kind = "call" -> call(work.o, m, work.arguments)

\* Interpreter::new, with the host's builtins defined in the global scope
NewMachine ==
  [phase |-> "setup",
   heap |-> StaticHeap \o <<ObjBuiltinFunction(0, "clock"), ObjBuiltinFunction(1, "id")>>,
   envs |-> <<[values |-> ("clock" :> 4) @@ ("id" :> 5), enclosing |-> 0]>>,
   environment |-> 1,
   globals |-> 1,
   output |-> << >>,
   frame |-> 0,
   lookups |-> << >>,
   entries |-> << >>,
   calls |-> << >>,
   raised |-> << >>,
   executed |-> << >>,
   writes |-> << >>,
   defined |-> << >>,
   held |-> {},
   relock |-> "blocked",
   stuck |-> << >>,
   outcome |-> "none"]

(***************************************************************************)
(* The value model as a state machine: the factories allocate cells, the   *)
(* classifications, coercions, arity and equality are applied to cells.    *)
(***************************************************************************)
F64Values == {Finite(0), NegZero, Finite(1), NaN}

StringValues == {"", "12", "ab"}

BuiltinValues == {<<0, "clock">>, <<1, "id">>}

DeclValues ==
  {StmtFunction("f", << >>, << >>),
   StmtFunction("g", <<"a", "b">>, <<StmtPrint(ExprVariable("a"))>>)}

Cells == DOMAIN heap

Classifications == {"is_nil", "is_string", "is_number", "is_bool", "is_callable"}

Coercions == {"as_bool", "as_number", "as_string"}

Apply(op, o) ==
  CASE op = "is_nil" -> Returned(is_nil(o))
    [] op = "is_string" -> Returned(is_string(o))
    [] op = "is_number" -> Returned(is_number(o))
    [] op = "is_bool" -> Returned(is_bool(o))
    [] op = "is_callable" -> Returned(is_callable(o))
    [] op = "as_bool" -> Returned(as_bool(o))
    [] op = "as_number" -> as_number(o)
    [] op = "as_string" -> Returned(as_string(o))
    [] op = "arity" -> Returned(arity(o))

ValueInit ==
  /\ heap = StaticHeap
  /\ result = NoResult
  /\ scanner = NewScanner(<< >>)
  /\ prev = scanner
  /\ token = NoToken
  /\ tokens = << >>
  /\ machine = NoMachine

OthersIdle == UNCHANGED <<scanVars, callVars>>

Made(op, r) ==
  /\ heap' = r.heap
  /\ result' = [op |-> op, a |-> 0, b |-> 0, out |-> Returned(r.handle)]
  /\ OthersIdle

Applied(op, c) ==
  /\ result' = [op |-> op, a |-> c, b |-> 0, out |-> Apply(op, heap[c])]
  /\ UNCHANGED heap
  /\ OthersIdle

CanAllocate == Len(heap) < Len(StaticHeap) + MaxFresh

NewNumber == \E v \in F64Values : CanAllocate /\ Made("new_number", new_number(heap, v))

NewBool == \E v \in BOOLEAN : Made("new_bool", new_bool(heap, v))

NewNil == Made("nil", nil(heap))

NewString == \E v \in StringValues : CanAllocate /\ Made("new_string", new_string(heap, v))

NewBuiltinFunction ==
  \E v \in BuiltinValues :
    CanAllocate /\ Made("new_builtin_function", new_builtin_function(heap, v[1], v[2]))

NewFunction ==
  \E d \in DeclValues : CanAllocate /\ Made("new_function", new_function(heap, d))

Classify == \E op \in Classifications, c \in Cells : Applied(op, c)

Coerce == \E op \in Coercions, c \in Cells : Applied(op, c)

Arity == \E c \in Cells : Applied("arity", c)

Equals ==
  \E c \in Cells, d \in Cells :
    /\ result' = [op |-> "eq", a |-> c, b |-> d, out |-> Returned(eq(heap[c], heap[d]))]
    /\ UNCHANGED heap
    /\ OthersIdle

\* Object::call on a callable cell, with as many arguments as its arity (the
\* evaluator's check; one cell is passed at every position), run by an
\* interpreter whose cells are the heap and whose caller holds the callee's
\* write guard; a call stuck on a lock ends in either outcome of the lock
Call ==
  \E c \in {d \in Cells : is_callable(heap[d])}, a \in Cells :
    /\ heap[c].tag = "BuiltinFunction" => (heap[c].func = "clock" => CanAllocate)
    /\ LET host == [NewMachine EXCEPT !.heap = heap, !.held = {c},
                                      !.envs = <<[values |-> NoValues, enclosing |-> 0]>>]
           arguments == [i \in 1..arity(heap[c]) |-> a]
           r == Invoke(heap[c], arguments, host)
           outs == IF r.err = "none" THEN {Returned(r.val)}
                   ELSE IF r.err \in RelockOutcomes
                     THEN {[ok |-> FALSE, val |-> b] : b \in RelockOutcomes}
                   ELSE {[ok |-> FALSE, val |-> r.err]}
       IN
         /\ heap' = r.m.heap
         /\ result' \in {[op |-> "call", a |-> c, b |-> 0, out |-> o] : o \in outs}
    /\ OthersIdle

ValueNext ==
  \/ NewNumber
  \/ NewBool
  \/ NewNil
  \/ NewString
  \/ NewBuiltinFunction
  \/ NewFunction
  \/ Classify
  \/ Coerce
  \/ Arity
  \/ Equals
  \/ Call

ValueSpec == ValueInit /\ [][ValueNext]_vars

(***************************************************************************)
(* The interpreter as a state machine.  The host defines its builtins in   *)
(* the global scope; then top-level statements are executed: declarations  *)
(* of the global x, of g and of f, and one call statement, at top level or *)
(* inside a block that has locals of its own.                              *)
(***************************************************************************)
Number2 == ExprLiteral(ObjNumber(Finite(2)))

PrintOf(name) == StmtPrint(ExprVariable(name))

CallOf(name, arguments) == StmtExpression(ExprCall(ExprVariable(name), arguments))

Bodies ==
  {<< >>,
   <<PrintOf("a")>>,
   <<PrintOf("x")>>,
   <<PrintOf("y")>>,
   <<StmtVar("l", <<Number2>>), StmtBlock(<<PrintOf("l"), PrintOf("x")>>)>>,
   <<StmtExpression(ExprAssign("x", Number2)), PrintOf("u"),
     StmtExpression(ExprAssign("x", ExprLiteral(ObjString("late"))))>>,
   <<CallOf("g", << >>), PrintOf("a")>>,
   <<StmtIf(ExprVariable("a"), PrintOf("a"), <<PrintOf("x")>>)>>,
   <<StmtWhile(ExprVariable("x"),
               StmtExpression(ExprAssign("x", ExprLiteral(ObjNil))))>>,
   <<StmtFunction("h", << >>, <<PrintOf("a")>>), CallOf("h", << >>)>>,
   <<PrintOf("f")>>,
   <<StmtIf(ExprVariable("a"), CallOf("f", <<ExprLiteral(ObjNil)>>), << >>)>>}

ParamLists == {<< >>, <<"a">>, <<"a", "b">>, <<"a", "a">>}

FunDecls == {StmtFunction("f", ps, body) : ps \in ParamLists, body \in Bodies}

GDecl == StmtFunction("g", << >>, <<PrintOf("a")>>)

XDecl == StmtVar("x", <<ExprLiteral(ObjNumber(Finite(1)))>>)

ArgExprs == {Number2, ExprLiteral(ObjNil), ExprVariable("x")}

Callees == {"f", "g", "clock", "id", "x", "nope"}

\* the call inside a block with the locals y and x
InBlock(stmt) ==
  StmtBlock(<<StmtVar("y", <<Number2>>),
              StmtVar("x", <<ExprLiteral(ObjString("local"))>>), stmt>>)

\* a function declared and called inside a block that has the local y
DeclaredInBlock ==
  StmtBlock(<<StmtVar("y", <<Number2>>),
              StmtFunction("h", << >>, <<PrintOf("y")>>), CallOf("h", << >>)>>)

CallStatements ==
  LET plain == {CallOf(c, args) : c \in Callees, args \in SeqsUpTo(ArgExprs, MaxArgs)}
  IN plain \cup {InBlock(s) : s \in plain} \cup {DeclaredInBlock}

CallInit ==
  /\ machine \in {[NewMachine EXCEPT !.relock = b] : b \in RelockOutcomes}
  /\ heap = << >>
  /\ result = NoResult
  /\ scanner = NewScanner(<< >>)
  /\ prev = scanner
  /\ token = NoToken
  /\ tokens = << >>

Global(name) == name \in DOMAIN machine.envs[machine.globals].values

\* the driver executes one top-level statement
Executed(stmt, phase) ==
  /\ LET r == Exec(stmt, machine) IN
       machine' = [r.m EXCEPT !.outcome = r.err, !.phase = phase]
  /\ UNCHANGED <<scanVars, valueVars>>

ExecuteVar ==
  /\ machine.phase = "setup"
  /\ ~ Global("x") /\ ~ Global("g") /\ ~ Global("f")
  /\ Executed(XDecl, "setup")

ExecuteFunctionG ==
  /\ machine.phase = "setup"
  /\ ~ Global("g") /\ ~ Global("f")
  /\ Executed(GDecl, "setup")

ExecuteFunctionF ==
  /\ machine.phase = "setup"
  /\ ~ Global("f")
  /\ \E d \in FunDecls : Executed(d, "setup")

ExecuteCall ==
  /\ machine.phase = "setup"
  /\ \E s \in CallStatements : Executed(s, "called")

CallNext ==
  \/ ExecuteVar
  \/ ExecuteFunctionG
  \/ ExecuteFunctionF
  \/ ExecuteCall

CallSpec == CallInit /\ [][CallNext]_vars

(***************************************************************************)
(* Object::call applied to a Function value directly, without the          *)
(* evaluator's checks: the argument list is of any length up to            *)
(* MaxArgs + 1, shorter or longer than the parameter list included.        *)
(***************************************************************************)
BindBodies == {<< >>, <<PrintOf("a")>>, <<PrintOf("b")>>}

BindInit ==
  /\ machine = [NewMachine EXCEPT
                  !.heap = @ \o <<ObjNumber(Finite(1)), ObjString("ab")>>]
  /\ heap = << >>
  /\ result = NoResult
  /\ scanner = NewScanner(<< >>)
  /\ prev = scanner
  /\ token = NoToken
  /\ tokens = << >>

CallDirect ==
  /\ machine.phase = "setup"
  /\ \E params \in ParamLists, body \in BindBodies,
        arguments \in SeqsUpTo(DOMAIN machine.heap, MaxArgs + 1) :
       LET f == ObjFunction(StmtFunction("f", params, body))
           r == Invoke(f, arguments, machine)
       IN machine' = [r.m EXCEPT !.outcome = r.err, !.phase = "called"]
  /\ UNCHANGED <<scanVars, valueVars>>

BindNext == CallDirect

BindSpec == BindInit /\ [][BindNext]_vars

(***************************************************************************)
(* Claims about the values.                                                *)
(***************************************************************************)
Variants == {"Nil", "Bool", "Number", "String", "BuiltinFunction", "Function"}

\* C9: every classification and every coercion, applied to a value of any of
\* the six variants, returns a result and never aborts.
C9_Total ==
  (result.op \in Classifications \cup Coercions /\ heap[result.a].tag \in Variants)
    => result.out.ok

\* the classifications, as_bool and as_string return on every variant (the part
\* of C9 the code keeps)
C9_TotalButAsNumber ==
  (result.op \in (Classifications \cup Coercions) \ {"as_number"}) => result.out.ok

\* C10: Nil equals Nil; two Bools, two Numbers (by f64's ==, under which NaN
\* differs from itself and -0 equals 0) or two Strings are equal exactly when
\* their payloads are; values of different variants are unequal; a pair with a
\* BuiltinFunction or a Function is unequal, a callable and itself included;
\* the relation is symmetric.
C10_Equality ==
  result.op = "eq" =>
    LET x == heap[result.a]
        y == heap[result.b]
        r == result.out.val
    IN
    /\ result.out.ok
    /\ (x.tag = "Nil" /\ y.tag = "Nil") => r
    /\ (x.tag = "Bool" /\ y.tag = "Bool") => (r <=> x.b = y.b)
    /\ (x.tag = "Number" /\ y.tag = "Number") =>
         (r <=> (x.n.cls # "nan" /\ y.n.cls # "nan" /\ x.n.v = y.n.v))
    /\ (x.tag = "String" /\ y.tag = "String") => (r <=> x.s = y.s)
    /\ x.tag # y.tag => ~ r
    /\ (x.tag \in {"BuiltinFunction", "Function"}
          \/ y.tag \in {"BuiltinFunction", "Function"}) => ~ r
    /\ r = eq(y, x)

\* a Function was compared with itself and found unequal
C10_Witness ==
  /\ result.op = "eq"
  /\ result.a = result.b
  /\ heap[result.a].tag = "Function"
  /\ result.out.val = FALSE

\* C11: as_bool returns false exactly for Nil and Bool(false), and true for
\* every other value: Bool(true), every Number (0, -0 and NaN included), every
\* String (the empty one included), every BuiltinFunction and every Function.
C11_Truthiness ==
  result.op = "as_bool" =>
    LET o == heap[result.a] IN
    /\ result.out.ok
    /\ result.out.val \in BOOLEAN
    /\ result.out.val = FALSE <=> (o = ObjNil \/ o = ObjBool(FALSE))
    /\ o.tag \in {"Number", "String", "BuiltinFunction", "Function"} => result.out.val
    /\ o = ObjBool(TRUE) => result.out.val

\* as_bool was applied to a cell holding the empty String and returned true
C11_Witness ==
  /\ result.op = "as_bool"
  /\ heap[result.a] = ObjString("")
  /\ result.out = Returned(TRUE)

\* as_bool was applied to a cell holding Number(0) and returned true
C11_WitnessZero ==
  /\ result.op = "as_bool"
  /\ heap[result.a] = ObjNumber(Finite(0))
  /\ result.out = Returned(TRUE)

\* C12: as_number maps Number(n) to n, Bool(true) to 1, Bool(false) to 0, Nil
\* to 0 and String(s) to the length of s, so String("12") maps to 2 and
\* String("") to 0; two Strings of the same length map to the same number.
C12_AsNumber ==
  result.op = "as_number" =>
    LET o == heap[result.a] IN
    /\ o.tag = "Number" => result.out = Returned(o.n)
    /\ o = ObjBool(TRUE) => result.out = Returned(Finite(1))
    /\ o = ObjBool(FALSE) => result.out = Returned(Finite(0))
    /\ o = ObjNil => result.out = Returned(Finite(0))
    /\ o.tag = "String" =>
         /\ result.out = Returned(Finite(Len(o.s)))
         /\ \A t \in StringValues :
              Len(t) = Len(o.s) => as_number(ObjString(t)) = result.out
    /\ o = ObjString("12") => result.out = Returned(Finite(2))
    /\ o = ObjString("") => result.out = Returned(Finite(0))

\* as_number was applied to a cell holding String("12") and returned 2, the
\* number String("ab") maps to as well
C12_Witness ==
  /\ result.op = "as_number"
  /\ heap[result.a] = ObjString("12")
  /\ result.out = Returned(Finite(2))
  /\ as_number(ObjString("ab")) = result.out

\* C13: nil(), new_bool(true) and new_bool(false) return the handles of the
\* three static cells, every time; new_number and new_string return a cell
\* that no handle named before; and whatever operation is applied (a factory, a
\* coercion, an equality test, an arity query, a call), the three static cells
\* hold Nil, Bool(true) and Bool(false) before and after it.
C13_Singletons ==
  [][/\ result'.op = "nil" => result'.out.val = NIL
     /\ result'.op = "new_bool" => result'.out.val \in {LoxTrue, LoxFalse}
     /\ result'.op \in {"nil", "new_bool"} => heap' = heap
     /\ result'.op \in {"new_number", "new_string"} =>
          /\ result'.out.val \notin DOMAIN heap
          /\ result'.out.val \in DOMAIN heap'
          /\ result'.out.val \notin {NIL, LoxTrue, LoxFalse}
          /\ heap'[result'.out.val].tag
               = (IF result'.op = "new_number" THEN "Number" ELSE "String")
     /\ heap[NIL] = ObjNil /\ heap[LoxTrue] = ObjBool(TRUE)
     /\ heap[LoxFalse] = ObjBool(FALSE)
     /\ heap'[NIL] = ObjNil /\ heap'[LoxTrue] = ObjBool(TRUE)
     /\ heap'[LoxFalse] = ObjBool(FALSE)]_vars

\* a Function was called on a heap of two allocated cells and its call returned
\* the handle of the static Nil cell, which holds Nil
C13_Witness ==
  /\ Len(heap) = Len(StaticHeap) + 2
  /\ result.op = "call"
  /\ heap[result.a].tag = "Function"
  /\ result.out = Returned(NIL)
  /\ heap[NIL] = ObjNil

(***************************************************************************)
(* Claims about the call protocol.                                         *)
(***************************************************************************)
Running == machine.phase # "off"

\* scope e is scope f or lies inside it: f is met walking outward from e
RECURSIVE Inside(_, _)
Inside(e, f) ==
  IF e = 0 THEN FALSE
  ELSE IF e = f THEN TRUE
  ELSE Inside(machine.envs[e].enclosing, f)

IsFunctionCall(c) == c.callee.tag = "Function"

\* C6: on every call of a Function the parameters are bound and the body runs
\* in a fresh Environment whose enclosing scope is the global scope, whatever
\* scope is active at the call site or was at the declaration; a name read in
\* the body resolves only to the invocation's scope, a scope inside it, or the
\* global scope.
C6_GlobalRootedScope ==
  Running =>
    /\ \A i \in DOMAIN machine.entries :
         LET e == machine.entries[i] IN
         /\ e.enclosing = machine.globals
         /\ machine.envs[e.env].enclosing = machine.globals
         /\ e.env # e.site /\ e.env # machine.globals
         /\ \A j \in DOMAIN machine.entries : j # i => machine.entries[j].env # e.env
    /\ \A i \in DOMAIN machine.lookups :
         LET l == machine.lookups[i] IN
         l.frame # 0 =>
           /\ Inside(l.active, l.frame)
           /\ l.found # 0 => (l.found = machine.globals \/ Inside(l.found, l.frame))

\* a Function was called from inside a block that has a local x, its body read
\* x, and the read resolved to the global x
C6_Witness ==
  /\ Running
  /\ \E i \in DOMAIN machine.entries, j \in DOMAIN machine.lookups :
       LET e == machine.entries[i]
           l == machine.lookups[j]
       IN /\ e.site # machine.globals
          /\ "x" \in DOMAIN machine.envs[e.site].values
          /\ l.frame = e.env
          /\ l.name = "x"
          /\ l.found = machine.globals

\* C7 as stated: the result of every call of a Function is Nil, whatever its body
C7_AlwaysNil ==
  Running =>
    \A i \in DOMAIN machine.calls :
      LET c == machine.calls[i] IN
      (IsFunctionCall(c) /\ c.entered) => (c.err = "none" /\ c.val = NIL)

\* C7, amended: a call of a Function that returns a value returns the Nil
\* singleton, whatever its body did; a call whose body raised a runtime error
\* returns that error and no value (a call that does neither never returned: it
\* is stuck on a lock).
C7_NilOrError ==
  Running =>
    /\ machine.heap[NIL] = ObjNil
    /\ \A i \in DOMAIN machine.calls :
         LET c == machine.calls[i] IN
         (IsFunctionCall(c) /\ c.entered) =>
           /\ c.err = "none" => c.val = NIL
           /\ c.err \in RuntimeErrors =>
                (c.val = 0 /\ c.err \in {machine.raised[k] : k \in DOMAIN machine.raised})
           /\ c.err \notin RuntimeErrors \cup {"none"} => c.err \in RelockOutcomes
           /\ c.err # "panic"

\* a Function whose body printed two lines was called and returned Nil
C7_Witness ==
  /\ Running
  /\ \E i \in DOMAIN machine.calls :
       LET c == machine.calls[i] IN
       /\ IsFunctionCall(c) /\ c.entered
       /\ c.err = "none" /\ c.val = NIL
       /\ c.outputAfter >= c.outputBefore + 2

\* the arity the claim names: declared for a builtin, the parameter count for a
\* Function
DeclaredArity(o) ==
  IF o.tag = "BuiltinFunction" THEN o.arity ELSE Len(o.declaration.params)

\* C8: a call whose argument count differs from the callee's arity fails with
\* an arity-mismatch error before a parameter is bound or a statement of the
\* body runs; call is entered only with as many arguments as parameters, and
\* no positional access leaves the argument list.
C8_ArityChecked ==
  Running =>
    /\ \A i \in DOMAIN machine.calls :
         LET c == machine.calls[i] IN
         /\ (c.callee.tag \in {"BuiltinFunction", "Function"}
               /\ c.nargs # DeclaredArity(c.callee)) =>
              /\ c.err = "arity-mismatch"
              /\ ~ c.entered
              /\ c.envsAfter = c.envsBefore
              /\ c.outputAfter = c.outputBefore
         /\ c.err # "panic"
    /\ \A i \in DOMAIN machine.entries :
         machine.entries[i].nargs = machine.entries[i].nparams
    /\ machine.outcome # "panic"

\* a Function of two parameters was called with one argument and the call
\* failed with the arity-mismatch error
C8_Witness ==
  /\ Running
  /\ machine.outcome = "arity-mismatch"
  /\ \E i \in DOMAIN machine.calls :
       LET c == machine.calls[i] IN
       /\ IsFunctionCall(c)
       /\ Len(c.callee.declaration.params) = 2
       /\ c.nargs = 1
       /\ c.err = "arity-mismatch"

\* C14: a call of a Function holds the write guard of the callee's cell while
\* the body runs, and a body that reads or calls that same function value still
\* runs to completion or to its first runtime error: no acquisition of a cell's
\* guard made during a call is stuck on a guard the call stack holds.
C14_NoGuardBlocks ==
  Running =>
    /\ machine.stuck = << >>
    /\ machine.outcome \in RuntimeErrors \cup {"none"}
    /\ \A i \in DOMAIN machine.calls :
         machine.calls[i].err \in RuntimeErrors \cup {"none"}

\* the last assignment made to name in scope owner
LastWrite(i) ==
  \A j \in DOMAIN machine.writes :
    (machine.writes[j].name = machine.writes[i].name
       /\ machine.writes[j].owner = machine.writes[i].owner) => j <= i

\* C15: when a runtime error is raised while the body of a Function runs, call
\* returns that error and no value, no statement is started after the error,
\* and every global binding the body assigned before the error holds the value
\* last assigned to it; a call of a BuiltinFunction returns no error and makes
\* no scope.
C15_ErrorsUnwind ==
  Running =>
    /\ \A i \in DOMAIN machine.calls :
         LET c == machine.calls[i] IN
         /\ (IsFunctionCall(c) /\ c.entered /\ c.err \in RuntimeErrors) =>
              /\ c.val = 0
              /\ machine.raised = <<c.err>>
              /\ machine.outcome = c.err
         /\ (IsFunctionCall(c) /\ c.entered /\ c.err = "none") => machine.raised = << >>
         /\ c.callee.tag = "BuiltinFunction" /\ c.entered =>
              /\ c.err = "none"
              /\ c.val \in DOMAIN machine.heap
              /\ c.envsAfter = c.envsBefore
    /\ \A i \in DOMAIN machine.executed : machine.executed[i].raised = 0
    /\ \A i \in DOMAIN machine.writes :
         LET w == machine.writes[i] IN
         (w.owner = machine.globals /\ LastWrite(i)) =>
           machine.envs[machine.globals].values[w.name] = w.value

\* a Function whose body assigns 2 to the global x, then reads an undefined
\* name, then assigns again, was called: the call returned the error and x
\* holds the 2
C15_Witness ==
  /\ Running
  /\ machine.outcome = "undefined-variable"
  /\ \E i \in DOMAIN machine.calls :
       LET c == machine.calls[i] IN
       IsFunctionCall(c) /\ c.entered /\ c.err = "undefined-variable"
  /\ Len(machine.writes) = 1
  /\ machine.writes[1].owner = machine.globals
  /\ machine.writes[1].frame # 0
  /\ machine.heap[machine.envs[machine.globals].values["x"]] = ObjNumber(Finite(2))

\* the last position of name in the parameter list of entry e
LastPosition(e, name) ==
  CHOOSE k \in DOMAIN e.params :
    /\ e.params[k].lexeme = name
    /\ \A j \in DOMAIN e.params : e.params[j].lexeme = name => j <= k

\* the bindings defined in scope env, in the order defined
DefinedIn(env) == SelectSeq(machine.defined, LAMBDA d : d.env = env)

\* C16: in a call of a Function with at least as many arguments as parameters,
\* parameter i is bound in the invocation's scope to the cell passed as argument
\* i itself (no cell is made), in increasing order of i, for every parameter;
\* of two parameters of one name the later position's argument is the one the
\* body reads; an argument at a position beyond the parameters is bound to no
\* name; the binding step leaves the global scope as it was.
C16_Binding ==
  Running =>
    \A i \in DOMAIN machine.entries :
      LET e     == machine.entries[i]
          names == {e.params[k].lexeme : k \in DOMAIN e.params}
      IN e.nargs >= e.nparams =>
           /\ DOMAIN e.values = names
           /\ \A n \in names : e.values[n] = e.arguments[LastPosition(e, n)]
           /\ \A k \in 1..e.nparams :
                DefinedIn(e.env)[k]
                  = [env |-> e.env, name |-> e.params[k].lexeme, value |-> e.arguments[k]]
           /\ e.cells[2] = e.cells[1]
           /\ e.globals[2] = e.globals[1]
           /\ \A j \in DOMAIN machine.lookups :
                LET l == machine.lookups[j] IN
                (l.frame = e.env /\ l.active = e.env /\ l.name \in names) =>
                  /\ l.found = e.env
                  /\ l.value = e.arguments[LastPosition(e, l.name)]

\* a Function with the parameters (a, a) was called with the cells of 1 and of
\* "ab" and a third argument; its body read a and printed ab
C16_Witness ==
  /\ Running
  /\ machine.outcome = "none"
  /\ Len(machine.entries) = 1
  /\ machine.entries[1].nparams = 2
  /\ machine.entries[1].nargs = 3
  /\ machine.entries[1].values = ("a" :> machine.entries[1].arguments[2])
  /\ machine.heap[machine.entries[1].arguments[1]] = ObjNumber(Finite(1))
  /\ machine.heap[machine.entries[1].arguments[2]] = ObjString("ab")
  /\ machine.output = <<"ab">>

====
